---- MODULE Spec2Model ----
(***************************************************************************)
(* State-machine model of the BME280 driver in                             *)
(* src/iot_humidifier_CC3220SF_LAUNCHXL_tirtos_ccs/bme280.c                *)
(*                                                                         *)
(* The driver's file-scope statics are the persistent state.  Every public *)
(* operation is one action, except BME280_readMeasurements, whose poll     *)
(* loop blocks in Task_sleep() and is therefore one action per loop        *)
(* iteration (the device's status register is an input at each iteration). *)
(* The bus (I2C_transfer) and the scheduler (Task_sleep) are the           *)
(* environment: every transfer succeeds or fails, and delivers bytes drawn *)
(* from small sets.  "trace" lists, in program order, the bus transfers    *)
(* and sleeps the current (or most recent) call has performed.             *)
(***************************************************************************)
EXTENDS Integers, Sequences, FiniteSets

(***************************************************************************)
(* Bounds of the model.                                                    *)
(***************************************************************************)
\* most sleeps one measurement is followed through when every operation of
\* the driver is explored (Spec)
MaxPolls == 3
\* most sleeps one measurement is followed through when the measurement
\* operations alone are explored (SpecPoll, SpecWrap)
MaxLongPolls == 17

(***************************************************************************)
(* Constants of bme280.h (register map of the BME280).                     *)
(***************************************************************************)
BME280_REG_ID == 208
BME280_REG_RESET == 224
BME280_REG_CTRL_HUM == 242
BME280_REG_STATUS == 243
BME280_REG_CTRL_MEAS == 244
BME280_REG_PRESSURE == 247
BME280_REG_CALIB00 == 136
BME280_REG_CALIB26 == 225
BME280_RESET_ASSERT == 182
BME280_RESET_SETTLING_TIME == 3
BME280_STATUS_MINIMUM_WAIT == 2
BME280_STATUS_MEASURING == 8
BME280_STATUS_IM_UPDATE == 1
BME280_CTRL_HUM_OSRS__4 == 3
BME280_CTRL_MEAS_OSRS_T__4 == 96
BME280_CTRL_MEAS_OSRS_P__4 == 12
BME280_CTRL_MEAS_MODE_SLEEP == 0
BME280_CTRL_MEAS_MODE_FORCED == 1
\* the chip id BME280_open() compares against
BME280_CHIP_ID == 96
\* the interval at which the poll loop restarts its backoff
StatusDelayLimit == 32768

(***************************************************************************)
(* Bit operations on naturals, as C computes | and & on unsigned operands. *)
(***************************************************************************)
\* the element of a one-element set
Only(S) == CHOOSE x \in S : TRUE

\* 2^n, 0 <= n <= 30
Pow2(n) ==
    << 1, 2, 4, 8, 16, 32, 64, 128, 256, 512, 1024, 2048, 4096, 8192, 16384,
       32768, 65536, 131072, 262144, 524288, 1048576, 2097152, 4194304,
       8388608, 16777216, 33554432, 67108864, 134217728, 268435456,
       536870912, 1073741824 >>[n + 1]

\* x & y for 4-bit x and y
NibbleAnd(x, y) ==
    (x % 2) * (y % 2)
        + 2 * (((x \div 2) % 2) * ((y \div 2) % 2))
        + 4 * (((x \div 4) % 2) * ((y \div 4) % 2))
        + 8 * ((x \div 8) * (y \div 8))

\* a & b, four bits at a time
RECURSIVE BitAnd(_, _)
BitAnd(a, b) ==
    IF a = 0 \/ b = 0 THEN 0
    ELSE NibbleAnd(a % 16, b % 16) + 16 * BitAnd(a \div 16, b \div 16)

\* a | b
BitOr(a, b) == (a + b) - BitAnd(a, b)

(***************************************************************************)
(* int32_t arithmetic.  The compensation code computes in int32_t; where a *)
(* result leaves the int32_t range the target build (two's complement)     *)
(* keeps the low 32 bits, so every operator reduces its result that way.   *)
(* Intermediate values are kept inside the int32_t range throughout.       *)
(***************************************************************************)
MaxI32 == 2147483647
MinI32 == (-2147483647) - 1

\* a + b, low 32 bits as int32_t
AddI32(a, b) ==
    IF b > 0 /\ a > MaxI32 - b
        THEN (((a - MaxI32) - 1) + b) - MaxI32 - 1
    ELSE IF b < 0 /\ a < MinI32 - b
        THEN (((a + MaxI32) + 1) + b) + MaxI32 + 1
    ELSE a + b

\* a - b, low 32 bits as int32_t
SubI32(a, b) ==
    IF b = MinI32 THEN AddI32(AddI32(a, MaxI32), 1) ELSE AddI32(a, 0 - b)

\* the low and the high 16 bits of the 32-bit pattern of a
Lo16(a) == a % 65536
Hi16(a) == (a \div 65536) % 65536

\* the int32_t whose pattern has the halves h and l
FromHalves(h, l) ==
    IF h >= 32768 THEN (h - 65536) * 65536 + l ELSE h * 65536 + l

\* the low 16 bits, and the bits above them, of x * y for 16-bit x and y
MulLo16(x, y) == (((x * (y \div 256)) % 256) * 256 + x * (y % 256)) % 65536
MulHi16(x, y) ==
    ((x * (y \div 256)) \div 256)
        + ((((x * (y \div 256)) % 256) * 256 + x * (y % 256)) \div 65536)

\* a * b, low 32 bits as int32_t
MulI32(a, b) ==
    FromHalves((MulHi16(Lo16(a), Lo16(b)) + MulLo16(Hi16(a), Lo16(b))
                    + MulLo16(Lo16(a), Hi16(b))) % 65536,
               MulLo16(Lo16(a), Lo16(b)))

\* a << n on int32_t, 0 <= n <= 30
ShlI32(a, n) == MulI32(a, Pow2(n))

\* a >> n on int32_t (arithmetic shift: rounds towards minus infinity)
SarI32(a, n) == a \div Pow2(n)

(***************************************************************************)
(* Calibration decoding: the BME280_dig_* macros over a calibration buffer *)
(* c (a function on 0..32) and the helpers they expand to.                 *)
(***************************************************************************)
\* conversion of a 16-bit pattern to int16_t
ToS16(w) == IF w >= 32768 THEN w - 65536 ELSE w
\* conversion of an 8-bit pattern to int8_t
ToS8(b) == IF b >= 128 THEN b - 256 ELSE b

_bme280_compute_U16LE(r0, r1) == BitOr(r1 * 256, r0) % 65536
\* variant of _bme280_compute_S16LE: the bytes taken in the other order
_bme280_compute_S16BE(r0, r1) == ToS16(r0 * 256 + r1)
_bme280_compute_S16LE(r0, r1) == ToS16(BitOr(r1 * 256, r0) % 65536)
_bme280_compute_H4(e4, e5) == ToS16(BitOr(BitOr(0, e4 * 16), BitAnd(e5, 15)))
_bme280_compute_H5(e5, e6) == ToS16(BitOr(BitOr(0, e6 * 16), e5 \div 16))

BME280_dig_T1(c) == _bme280_compute_U16LE(c[0], c[1])
BME280_dig_T2(c) == _bme280_compute_S16LE(c[2], c[3])
BME280_dig_T3(c) == _bme280_compute_S16LE(c[4], c[5])
BME280_dig_P1(c) == _bme280_compute_U16LE(c[6], c[7])
BME280_dig_P2(c) == _bme280_compute_S16LE(c[8], c[9])
BME280_dig_P3(c) == _bme280_compute_S16LE(c[10], c[11])
BME280_dig_P4(c) == _bme280_compute_S16LE(c[12], c[13])
BME280_dig_P5(c) == _bme280_compute_S16LE(c[14], c[15])
BME280_dig_P6(c) == _bme280_compute_S16LE(c[16], c[17])
BME280_dig_P7(c) == _bme280_compute_S16LE(c[18], c[19])
BME280_dig_P8(c) == _bme280_compute_S16LE(c[20], c[21])
BME280_dig_P9(c) == _bme280_compute_S16LE(c[22], c[23])
BME280_dig_H1(c) == c[25]
BME280_dig_H2(c) == _bme280_compute_S16LE(c[26], c[27])
BME280_dig_H3(c) == c[28]
BME280_dig_H4(c) == _bme280_compute_H4(c[29], c[30])
BME280_dig_H5(c) == _bme280_compute_H5(c[30], c[31])
BME280_dig_H6(c) == ToS8(c[32])

(***************************************************************************)
(* Temperature and humidity compensation (int32_t arithmetic).             *)
(***************************************************************************)
\* the value BME280_compensated_Temperature stores in _t_fine
TFineOf(adc_T, c) ==
    LET T1 == BME280_dig_T1(c)
        T2 == BME280_dig_T2(c)
        T3 == BME280_dig_T3(c)
        var1 == SarI32(MulI32(SubI32(SarI32(adc_T, 3), ShlI32(T1, 1)), T2), 11)
        d == SubI32(SarI32(adc_T, 4), T1)
        var2 == SarI32(MulI32(SarI32(MulI32(d, d), 12), T3), 14)
    IN  AddI32(var1, var2)

\* the value BME280_compensated_Temperature returns once _t_fine is tf
TemperatureOf(tf) == SarI32(AddI32(MulI32(tf, 5), 128), 8)

\* BME280_compensated_Humidity: the limits v_x1_u32r is clamped to
HumidityClampMin == 0
HumidityClampMax == 419430400

\* BME280_compensated_Humidity: v_x1_u32r before it is clamped
HumidityUnclamped(adc_H, tf, c) ==
    LET H1 == BME280_dig_H1(c)
        H2 == BME280_dig_H2(c)
        H3 == BME280_dig_H3(c)
        H4 == BME280_dig_H4(c)
        H5 == BME280_dig_H5(c)
        H6 == BME280_dig_H6(c)
        v0 == SubI32(tf, 76800)
        left == SarI32(AddI32(SubI32(SubI32(ShlI32(adc_H, 14), ShlI32(H4, 20)),
                                     MulI32(H5, v0)),
                              16384), 15)
        a == SarI32(MulI32(v0, H6), 10)
        b == AddI32(SarI32(MulI32(v0, H3), 11), 32768)
        right == SarI32(AddI32(MulI32(AddI32(SarI32(MulI32(a, b), 10), 2097152), H2),
                               8192), 14)
        v1 == MulI32(left, right)
        s == SarI32(v1, 15)
    IN  SubI32(v1, SarI32(MulI32(SarI32(MulI32(s, s), 7), H1), 4))

\* variant of HumidityClamped: the upper limit left out
HumidityClampedBelowOnly(v) ==
    IF v < HumidityClampMin THEN HumidityClampMin ELSE v

\* BME280_compensated_Humidity: the two clamping statements
HumidityClamped(v) ==
    LET v3 == IF v < HumidityClampMin THEN HumidityClampMin ELSE v
    IN  IF v3 > HumidityClampMax THEN HumidityClampMax ELSE v3

\* the value BME280_compensated_Humidity returns
HumidityOf(adc_H, tf, c) ==
    SarI32(HumidityClamped(HumidityUnclamped(adc_H, tf, c)), 12)

(***************************************************************************)
(* int64_t arithmetic.  A value is its two's complement pattern, the tuple *)
(* of its 8 bytes, least significant first; results keep the low 64 bits.  *)
(***************************************************************************)
Zero64 == << 0, 0, 0, 0, 0, 0, 0, 0 >>
One64 == << 1, 0, 0, 0, 0, 0, 0, 0 >>

\* (int64_t)x for an int32_t x
I64(x) ==
    LET s == IF x < 0 THEN 255 ELSE 0
    IN  << x % 256, (x \div 256) % 256, (x \div 65536) % 256,
           (x \div 16777216) % 256, s, s, s, s >>

IsNeg64(a) == a[8] >= 128
IsZero64(a) == a = Zero64

\* a + b: s1 .. s8 are the byte sums with their carries
Add64(a, b) ==
    LET s1 == a[1] + b[1]
        s2 == a[2] + b[2] + (s1 \div 256)
        s3 == a[3] + b[3] + (s2 \div 256)
        s4 == a[4] + b[4] + (s3 \div 256)
        s5 == a[5] + b[5] + (s4 \div 256)
        s6 == a[6] + b[6] + (s5 \div 256)
        s7 == a[7] + b[7] + (s6 \div 256)
        s8 == a[8] + b[8] + (s7 \div 256)
    IN  << s1 % 256, s2 % 256, s3 % 256, s4 % 256,
           s5 % 256, s6 % 256, s7 % 256, s8 % 256 >>

Not64(a) == << 255 - a[1], 255 - a[2], 255 - a[3], 255 - a[4],
               255 - a[5], 255 - a[6], 255 - a[7], 255 - a[8] >>
Neg64(a) == Add64(Not64(a), One64)
Sub64(a, b) == Add64(a, Neg64(b))

\* a * b: c1 .. c8 are the columns of the long multiplication with their
\* carries
Mul64(a, b) ==
    LET c1 == a[1] * b[1]
        c2 == a[1] * b[2] + a[2] * b[1] + (c1 \div 256)
        c3 == a[1] * b[3] + a[2] * b[2] + a[3] * b[1] + (c2 \div 256)
        c4 == a[1] * b[4] + a[2] * b[3] + a[3] * b[2] + a[4] * b[1]
              + (c3 \div 256)
        c5 == a[1] * b[5] + a[2] * b[4] + a[3] * b[3] + a[4] * b[2]
              + a[5] * b[1] + (c4 \div 256)
        c6 == a[1] * b[6] + a[2] * b[5] + a[3] * b[4] + a[4] * b[3]
              + a[5] * b[2] + a[6] * b[1] + (c5 \div 256)
        c7 == a[1] * b[7] + a[2] * b[6] + a[3] * b[5] + a[4] * b[4]
              + a[5] * b[3] + a[6] * b[2] + a[7] * b[1] + (c6 \div 256)
        c8 == a[1] * b[8] + a[2] * b[7] + a[3] * b[6] + a[4] * b[5]
              + a[5] * b[4] + a[6] * b[3] + a[7] * b[2] + a[8] * b[1]
              + (c7 \div 256)
    IN  << c1 % 256, c2 % 256, c3 % 256, c4 % 256,
           c5 % 256, c6 % 256, c7 % 256, c8 % 256 >>

\* a << n, 0 <= n < 64
Shl64(a, n) ==
    LET q == n \div 8
        r == n % 8
        byte(k) == IF k >= 1 THEN a[k] ELSE 0
        out(k) == ((byte(k - q) * Pow2(r)) % 256)
                      + (byte(k - q - 1) \div Pow2(8 - r))
    IN  << out(1), out(2), out(3), out(4), out(5), out(6), out(7), out(8) >>

\* a >> n (arithmetic), 0 <= n < 64
Sar64(a, n) ==
    LET q == n \div 8
        r == n % 8
        fill == IF IsNeg64(a) THEN 255 ELSE 0
        byte(k) == IF k <= 8 THEN a[k] ELSE fill
        out(k) == (byte(k + q) \div Pow2(r))
                      + ((byte(k + q + 1) * Pow2(8 - r)) % 256)
    IN  << out(1), out(2), out(3), out(4), out(5), out(6), out(7), out(8) >>

\* The long division works on the unsigned value of a pattern, held as
\* three limbs of 22 bits, least significant first.
Limb == 4194304
Limbs64(a) ==
    << a[1] + 256 * a[2] + 65536 * (a[3] % 64),
       (a[3] \div 64) + 4 * a[4] + 1024 * a[5] + 262144 * (a[6] % 16),
       (a[6] \div 16) + 16 * a[7] + 4096 * a[8] >>

\* 2 * x + bit on limbs
Double3(x, bit) ==
    LET l1 == 2 * x[1] + bit
        l2 == 2 * x[2] + (l1 \div Limb)
        l3 == 2 * x[3] + (l2 \div Limb)
    IN  << l1 % Limb, l2 % Limb, l3 >>

\* x < y on limbs
Less3(x, y) ==
    \/ x[3] < y[3]
    \/ x[3] = y[3] /\ x[2] < y[2]
    \/ x[3] = y[3] /\ x[2] = y[2] /\ x[1] < y[1]

\* x - y on limbs, for x >= y
Sub3(x, y) ==
    LET l1 == x[1] - y[1]
        l2 == (x[2] - y[2]) + (l1 \div Limb)
        l3 == (x[3] - y[3]) + (l2 \div Limb)
    IN  << l1 % Limb, l2 % Limb, l3 >>

\* unsigned long division by d # 0 over the bits i .. 0 of one byte of the
\* dividend, given the remainder r left by the bits above: the pair of
\* those bits of the quotient and the remainder they leave
RECURSIVE DivBits64(_, _, _, _)
DivBits64(byte, d, i, r) ==
    IF i < 0 THEN << 0, r >>
    ELSE LET r2 == Double3(r, (byte \div Pow2(i)) % 2)
         IN  IF Less3(r2, d)
                 THEN DivBits64(byte, d, i - 1, r2)
                 ELSE [DivBits64(byte, d, i - 1, Sub3(r2, d))
                          EXCEPT ![1] = @ + Pow2(i)]

\* unsigned long division of n by d # 0: the bytes j .. 1 of the quotient,
\* given the remainder r left by the bytes of n above byte j
RECURSIVE DivU64(_, _, _, _)
DivU64(n, d, j, r) ==
    IF j < 1 THEN << >>
    ELSE Only({ DivU64(n, d, j - 1, qr[2]) \o << qr[1] >> :
                qr \in { DivBits64(n[j], d, 7, r) } })

Abs64(a) == IF IsNeg64(a) THEN Neg64(a) ELSE a

\* a / b on int64_t, b # 0 (the quotient is truncated towards zero)
Div64(a, b) ==
    LET q == Only({ DivU64(Abs64(a), d, 8, << 0, 0, 0 >>) :
                    d \in { Limbs64(Abs64(b)) } })
    IN  IF IsNeg64(a) # IsNeg64(b) THEN Neg64(q) ELSE q

\* (uint32_t)a, given as the int32_t with the same 32-bit pattern
Low32(a) ==
    LET v == a[1] + 256 * a[2] + 65536 * a[3] + 16777216 * (a[4] % 128)
    IN  IF a[4] >= 128 THEN (v - MaxI32) - 1 ELSE v

\* 1 << 47 as int64_t
Bit47 == << 0, 0, 0, 0, 0, 128, 0, 0 >>

(***************************************************************************)
(* Pressure compensation (int64_t arithmetic).                             *)
(***************************************************************************)
\* the divisor var1 of BME280_compensated_Pressure
PressureVar1(tf, c) ==
    LET v == Sub64(I64(tf), I64(128000))
        a == Sar64(Mul64(Mul64(v, v), I64(BME280_dig_P3(c))), 8)
        b == Shl64(Mul64(v, I64(BME280_dig_P2(c))), 12)
    IN  Sar64(Mul64(Add64(Bit47, Add64(a, b)), I64(BME280_dig_P1(c))), 33)

\* var2 of BME280_compensated_Pressure at the division
PressureVar2(tf, c) ==
    LET v == Sub64(I64(tf), I64(128000))
        a == Mul64(Mul64(v, v), I64(BME280_dig_P6(c)))
        b == Add64(a, Shl64(Mul64(v, I64(BME280_dig_P5(c))), 17))
    IN  Add64(Add64(b, Sar64(I64(BME280_dig_P3(c)), 8)),
              Shl64(Mul64(v, I64(BME280_dig_P2(c))), 12))

\* the dividend (((p << 31) - var2) * 3125) of BME280_compensated_Pressure
PressureDividend(adc_P, var2) ==
    LET p0 == Sub64(I64(1048576), I64(adc_P))
    IN  Mul64(Sub64(Shl64(p0, 31), var2), I64(3125))

\* the value BME280_compensated_Pressure returns, given the quotient p1
PressureResult(p1, c) ==
    LET s == Sar64(p1, 13)
        w1 == Sar64(Mul64(Mul64(I64(BME280_dig_P9(c)), s), s), 25)
        w2 == Sar64(Mul64(I64(BME280_dig_P8(c)), p1), 19)
        p2 == Add64(Sar64(Add64(Add64(p1, w1), w2), 8),
                    Shl64(I64(BME280_dig_P7(c)), 4))
    IN  Low32(p2)

\* BME280_compensated_Pressure from the division on, for a divisor var1
PressureQuotient(adc_P, var1, var2, c) ==
    Only({ PressureResult(p1, c) :
           p1 \in { Div64(n, var1) : n \in { PressureDividend(adc_P, var2) } } })

\* variant of PressureGuarded: the test for a zero divisor left out
PressureUnguarded(adc_P, var1, var2, c) ==
    PressureQuotient(adc_P, var1, var2, c)

\* BME280_compensated_Pressure from the test of var1 on
PressureGuarded(adc_P, var1, var2, c) ==
    IF IsZero64(var1) THEN 0 ELSE PressureQuotient(adc_P, var1, var2, c)

\* the value BME280_compensated_Pressure returns (each intermediate is
\* bound to its value before the next statement uses it)
PressureOf(adc_P, tf, c) ==
    Only({ PressureGuarded(adc_P, var1, var2, c) :
           var1 \in { PressureVar1(tf, c) }, var2 \in { PressureVar2(tf, c) } })

(***************************************************************************)
(* The environment's inputs.                                               *)
(***************************************************************************)
\* bytes the chip-ID register read can produce (0x60 is a BME280, 0x58 a
\* BMP280; a failed transfer leaves the uninitialised rdBuf, any byte)
IdBytes == {88, 96, 255}

\* values of the status register (bit 3 measuring, bit 0 im_update)
StatusBytes == {0, 1, 8}

\* the calibration registers of the device on the bus: 0x88..0xA1 (26
\* bytes) followed by 0xE1..0xE7 (7 bytes, the last one holding dig_H6)
DeviceCalibration ==
    << 112, 107,  67, 103,  24, 252, 125, 142,  67, 214, 208,  11,  39,
        11, 140,   0, 249, 255, 140,  60, 248, 198, 112,  23,   0,  75,
       106,   1,   0,  19,  45,   3,  30 >>

\* 8-byte frames of the data registers 0xF7..0xFE
DataFrames ==
    { << 101,  90, 192, 126, 237,   0,  92,  21 >>,
      << 255, 255, 255, 255, 255, 255, 255, 255 >> }

\* timeouts handed to BME280_readMeasurements when every operation is
\* explored
Timeouts == {0, 6}

\* timeouts handed to it when the measurement operations alone are
\* explored: 0, and the values around every sum 2 + 4 + .. + 2^k of poll
\* intervals, up to the largest uint16_t
PollTimeouts ==
    {0} \cup {t \in 1..65535 :
                \E k \in 1..16 : t + 2 >= Pow2(k) - 3 /\ t + 2 <= Pow2(k) + 3}

(***************************************************************************)
(* Events of the trace.                                                    *)
(***************************************************************************)
\* Task_sleep(ticks)
EvSleep(ticks) ==
    [op |-> "sleep", reg |-> 0, arg |-> ticks, off |-> 0, data |-> << >>]
\* BME280_writeReg(reg, value): one 2-byte write transfer
EvWrite(r, value) ==
    [op |-> "write", reg |-> r, arg |-> value, off |-> 0, data |-> << >>]
\* a read transfer of n bytes starting at register r, into offset off of
\* the receiving buffer; data lists the bytes stored (none when the
\* bytes are not traced or the transfer failed)
EvRead(r, n, o, bytes) ==
    [op |-> "read", reg |-> r, arg |-> n, off |-> o, data |-> bytes]

IsBus(e) == e.op \in {"read", "write"}

(***************************************************************************)
(* Pointers and unsigned counters.                                         *)
(***************************************************************************)
\* the null pointer, and the address of the static _rawData
NULL == 0
RawDataPtr == 1

\* uint32_t values are kept as 16-bit halves: value = hi * 65536 + lo
U32(h, l) == [hi |-> h, lo |-> l]
\* a + d on uint32_t, for a 16-bit d
AddU32(a, d) ==
    LET l == a.lo + d
    IN  U32((a.hi + l \div 65536) % 65536, l % 65536)
\* a > t on uint32_t, for a 16-bit t
GtU32(a, t) == a.hi > 0 \/ a.lo > t

(***************************************************************************)
(* The steps of the code the actions are built from.                       *)
(***************************************************************************)
\* variant of IdAccepted: the chip-ID test left out
IdAcceptedAny(readId) == TRUE

\* BME280_open: the chip-ID test
IdAccepted(readId) == readId = BME280_CHIP_ID

\* a read transfer of n bytes into c[o..o+n-1] from the register image img,
\* whose byte for c[i] is img[i+1]; a failed transfer stores nothing
StoreBlock(c, o, n, img, ok) ==
    [i \in 0..32 |-> IF ok /\ i >= o /\ i < o + n THEN img[i + 1] ELSE c[i]]

\* the bytes such a transfer stores
BlockBytes(o, n, img, ok) ==
    IF ok THEN [k \in 1..n |-> img[o + k]] ELSE << >>

\* BME280_open: the calibration buffer after the two block reads
OpenCalibration(c, img, okA, okB) ==
    StoreBlock(StoreBlock(c, 0, 26, img, okA), 26, 6, img, okB)

\* variant of OpenCtrlMeas: the mode bits retained with the oversampling
OpenCtrlMeasNormal ==
    BitOr(BitOr(BME280_CTRL_MEAS_OSRS_T__4, BME280_CTRL_MEAS_OSRS_P__4), 3)

\* BME280_open: the value it retains in _bme280_ctrl_meas
OpenCtrlMeas == BitOr(BME280_CTRL_MEAS_OSRS_T__4, BME280_CTRL_MEAS_OSRS_P__4)

\* BME280_open: the transfers and sleeps up to the chip-ID test
OpenHead(readId) ==
    << EvSleep(BME280_RESET_SETTLING_TIME),
       EvRead(BME280_REG_ID, 1, 0, << readId >>) >>

\* BME280_open: the reset and the calibration reads
OpenReset(img, okA, okB) ==
    << EvWrite(BME280_REG_RESET, BME280_RESET_ASSERT),
       EvSleep(BME280_RESET_SETTLING_TIME),
       EvRead(BME280_REG_CALIB00, 26, 0, BlockBytes(0, 26, img, okA)),
       EvRead(BME280_REG_CALIB26, 6, 26, BlockBytes(26, 6, img, okB)) >>

\* variant of OpenConfig: the two writes in the other order
OpenConfigSwapped(cm) ==
    << EvWrite(BME280_REG_CTRL_MEAS, BitOr(cm, BME280_CTRL_MEAS_MODE_SLEEP)),
       EvWrite(BME280_REG_CTRL_HUM, BME280_CTRL_HUM_OSRS__4) >>

\* BME280_open: the configuration writes
OpenConfig(cm) ==
    << EvWrite(BME280_REG_CTRL_HUM, BME280_CTRL_HUM_OSRS__4),
       EvWrite(BME280_REG_CTRL_MEAS, BitOr(cm, BME280_CTRL_MEAS_MODE_SLEEP)) >>

\* variant of ReadTrigger: the trigger written without the retained byte
ReadTriggerModeOnly(cm) ==
    << EvWrite(BME280_REG_CTRL_MEAS, BME280_CTRL_MEAS_MODE_FORCED),
       EvSleep(BME280_STATUS_MINIMUM_WAIT) >>

\* BME280_read: the trigger and the wait before BME280_readMeasurements(0)
ReadTrigger(cm) ==
    << EvWrite(BME280_REG_CTRL_MEAS, BitOr(BME280_CTRL_MEAS_MODE_FORCED, cm)),
       EvSleep(BME280_STATUS_MINIMUM_WAIT) >>

\* BME280_read: the timeout it polls with
ReadTimeout == 0

\* variant of StatusBusy: the image-update bit not tested
StatusBusyMeasuringOnly(st) == BitAnd(st, BME280_STATUS_MEASURING) # 0

\* BME280_readMeasurements: the loop condition on the status byte
StatusBusy(st) ==
    BitAnd(st, BitOr(BME280_STATUS_MEASURING, BME280_STATUS_IM_UPDATE)) # 0

\* variant of NextStatusDelay: the interval restarts one doubling early
NextStatusDelayEarly(d) ==
    IF d >= StatusDelayLimit \div 2 THEN BME280_STATUS_MINIMUM_WAIT
    ELSE (d * 2) % 65536

\* variant of NextStatusDelay: the reset test with > in place of >=
NextStatusDelayLate(d) ==
    IF d > StatusDelayLimit THEN BME280_STATUS_MINIMUM_WAIT
    ELSE (d * 2) % 65536

\* BME280_readMeasurements: the next poll interval (uint16_t)
NextStatusDelay(d) ==
    IF d >= StatusDelayLimit THEN BME280_STATUS_MINIMUM_WAIT
    ELSE (d * 2) % 65536

\* variant of TimedOut: >= in place of >
TimedOutAtEqual(t, total) == t # 0 /\ (GtU32(total, t) \/ total = U32(0, t))

\* variant of TimedOut: the test for a zero timeout left out
TimedOutAlways(t, total) == GtU32(total, t)

\* BME280_readMeasurements: the timeout test at the end of an iteration
TimedOut(t, total) == t # 0 /\ GtU32(total, t)

\* what BME280_readWord returns for the 2 bytes it read
ReadWordValue(rdBuf) == BitOr(rdBuf[1] * 256, rdBuf[2])

\* what BME280_readWord20 returns for the 3 bytes it read
ReadWord20Value(rdBuf) ==
    BitOr(BitOr(rdBuf[1] * 4096, rdBuf[2] * 16), rdBuf[3] \div 16)

\* variant of DecodeFrame: the humidity pair taken low byte first
DecodeFrameLE(b) ==
    [ humidity_raw    |-> BitOr(b[8] * 256, b[7]),
      temperature_raw |-> BitOr(BitOr(b[4] * 4096, b[5] * 16), b[6] \div 16),
      pressure_raw    |-> BitOr(BitOr(b[1] * 4096, b[2] * 16), b[3] \div 16) ]

\* BME280_readMeasurements: the sample decoded from the 8 bytes b[1..8]
DecodeFrame(b) ==
    [ humidity_raw    |-> BitOr(b[7] * 256, b[8]),
      temperature_raw |-> BitOr(BitOr(b[4] * 4096, b[5] * 16), b[6] \div 16),
      pressure_raw    |-> BitOr(BitOr(b[1] * 4096, b[2] * 16), b[3] \div 16) ]

\* number of sleeps in a trace
SleepCount(tr) == Cardinality({i \in 1..Len(tr) : tr[i].op = "sleep"})

VARIABLES
    cal,            \* _bme280_calibration[33], indexed 0..32
    ctrl_meas,      \* _bme280_ctrl_meas
    rawData,        \* _rawData
    t_fine,         \* _t_fine
    pc,             \* "idle", or "poll" inside BME280_readMeasurements
    call,           \* the operation running or last run
    ret,            \* what that operation returned
    rd,             \* that call's argument rd (compensation functions)
    timeout,        \* that call's argument timeout (readMeasurements)
    status_delay,   \* that call's local status_delay, as it left it
    total_delay,    \* that call's local total_delay, as it left it
    stat,           \* that call's local holding the status byte last read
    trace,          \* transfers and sleeps of the running or last call
    xferFailed,     \* some transfer of the running or last call failed
    handed,         \* &_rawData has been returned to the application
    tsrc            \* the sample count and calibration the last assignment
                    \* to _t_fine used, and whether _rawData is still that
                    \* sample

vars == << cal, ctrl_meas, rawData, t_fine, pc, call, ret, rd, timeout,
           status_delay, total_delay, stat, trace, xferFailed, handed, tsrc >>

driver == << cal, ctrl_meas, rawData, t_fine >>

\* a call of an operation without the locals of BME280_readMeasurements
NoPollLocals ==
    /\ timeout' = 0
    /\ status_delay' = 0
    /\ total_delay' = U32(0, 0)
    /\ stat' = 0

\* no assignment to _t_fine so far
NoSource ==
    [written |-> FALSE, temperature_raw |-> 0,
     calibration |-> [i \in 0..32 |-> 0], current |-> FALSE]

Init ==
    /\ cal = [i \in 0..32 |-> 0]
    /\ ctrl_meas = 0
    /\ rawData = [humidity_raw |-> 0, temperature_raw |-> 0, pressure_raw |-> 0]
    /\ t_fine = 0
    /\ pc = "idle"
    /\ call = "none"
    /\ ret = 0
    /\ rd = NULL
    /\ timeout = 0
    /\ status_delay = 0
    /\ total_delay = U32(0, 0)
    /\ stat = 0
    /\ trace = << >>
    /\ xferFailed = FALSE
    /\ handed = FALSE
    /\ tsrc = NoSource

(***************************************************************************)
(* bool BME280_open()                                                      *)
(***************************************************************************)
BME280_open ==
    /\ pc = "idle"
    /\ \E readId \in IdBytes, okId \in BOOLEAN :
        IF ~IdAccepted(readId)
        THEN /\ ret' = 0
             /\ trace' = OpenHead(readId)
             /\ xferFailed' = ~okId
             /\ UNCHANGED << cal, ctrl_meas >>
        ELSE \E okRst, okA, okB, okCfg \in BOOLEAN :
             /\ cal' = OpenCalibration(cal, DeviceCalibration, okA, okB)
             /\ ctrl_meas' = OpenCtrlMeas
             /\ trace' = OpenHead(readId)
                             \o OpenReset(DeviceCalibration, okA, okB)
                             \o OpenConfig(OpenCtrlMeas)
             /\ xferFailed' = ~(okId /\ okRst /\ okA /\ okB /\ okCfg)
             /\ ret' = 1
    /\ call' = "open"
    /\ rd' = NULL
    /\ NoPollLocals
    /\ UNCHANGED << rawData, t_fine, pc, handed, tsrc >>

(***************************************************************************)
(* bool BME280_close()                                                     *)
(***************************************************************************)
\* variant of CloseCtrlMeas: the retained byte left as it is
CloseCtrlMeasKept == ctrl_meas

\* BME280_close: the value it leaves in _bme280_ctrl_meas
CloseCtrlMeas == 0

\* variant of BME280_close: it also clears the stored sample
BME280_closeClearing ==
    /\ pc = "idle"
    /\ \E ok \in BOOLEAN :
        /\ trace' = << EvWrite(BME280_REG_RESET, BME280_RESET_ASSERT) >>
        /\ xferFailed' = ~ok
    /\ ctrl_meas' = CloseCtrlMeas
    /\ rawData' = [humidity_raw |-> 0, temperature_raw |-> 0,
                   pressure_raw |-> 0]
    /\ ret' = 1
    /\ call' = "close"
    /\ rd' = NULL
    /\ NoPollLocals
    /\ UNCHANGED << cal, t_fine, pc, handed, tsrc >>

BME280_close ==
    /\ pc = "idle"
    /\ \E ok \in BOOLEAN :
        /\ trace' = << EvWrite(BME280_REG_RESET, BME280_RESET_ASSERT) >>
        /\ xferFailed' = ~ok
    /\ ctrl_meas' = CloseCtrlMeas
    /\ ret' = 1
    /\ call' = "close"
    /\ rd' = NULL
    /\ NoPollLocals
    /\ UNCHANGED << cal, rawData, t_fine, pc, handed, tsrc >>

(***************************************************************************)
(* BME280_RawData * BME280_readMeasurements(uint16_t timeout)              *)
(***************************************************************************)
\* the declarations at the head of the function
EnterPoll(t) ==
    /\ pc' = "poll"
    /\ timeout' = t
    /\ status_delay' = BME280_STATUS_MINIMUM_WAIT
    /\ total_delay' = U32(0, 0)
    /\ stat' = 0
    /\ ret' = NULL

BME280_readMeasurements(t) ==
    /\ pc = "idle"
    /\ EnterPoll(t)
    /\ call' = "readMeasurements"
    /\ trace' = << >>
    /\ xferFailed' = FALSE
    /\ rd' = NULL
    /\ UNCHANGED << driver, handed, tsrc >>

\* one iteration of the loop: the status byte has a busy bit set
PollBusy(cap) ==
    /\ pc = "poll"
    /\ SleepCount(trace) < cap
    /\ \E st \in StatusBytes, ok \in BOOLEAN :
        /\ StatusBusy(st)
        /\ stat' = st
        /\ xferFailed' = (xferFailed \/ ~ok)
    /\ trace' = trace \o << EvRead(BME280_REG_STATUS, 1, 0, << >>),
                            EvSleep(status_delay) >>
    /\ total_delay' = AddU32(total_delay, status_delay)
    /\ status_delay' = NextStatusDelay(status_delay)
    /\ IF TimedOut(timeout, total_delay')
       THEN pc' = "idle" /\ ret' = NULL
       ELSE pc' = "poll" /\ ret' = ret
    /\ UNCHANGED << driver, call, rd, timeout, handed, tsrc >>

\* the loop exit: no busy bit is set; the data registers are read and decoded
PollReady ==
    /\ pc = "poll"
    /\ \E st \in StatusBytes, frame \in DataFrames, okS, okD \in BOOLEAN :
        /\ ~StatusBusy(st)
        /\ stat' = st
        /\ xferFailed' = (xferFailed \/ ~okS \/ ~okD)
        /\ trace' = trace \o << EvRead(BME280_REG_STATUS, 1, 0, << >>),
                                EvRead(BME280_REG_PRESSURE, 8, 0, frame) >>
        /\ rawData' = DecodeFrame(frame)
    /\ pc' = "idle"
    /\ ret' = RawDataPtr
    /\ handed' = TRUE
    /\ tsrc' = [tsrc EXCEPT !.current = FALSE]
    /\ UNCHANGED << cal, ctrl_meas, t_fine, call, rd, timeout, status_delay,
                    total_delay >>

(***************************************************************************)
(* BME280_RawData * BME280_read()                                          *)
(***************************************************************************)
BME280_read ==
    /\ pc = "idle"
    /\ \E ok \in BOOLEAN : xferFailed' = ~ok
    /\ trace' = ReadTrigger(ctrl_meas)
    /\ EnterPoll(ReadTimeout)
    /\ call' = "read"
    /\ rd' = NULL
    /\ UNCHANGED << driver, handed, tsrc >>

(***************************************************************************)
(* The compensation functions.  The application passes NULL or the pointer *)
(* BME280_readMeasurements has handed to it.                               *)
(***************************************************************************)
Samples == {NULL} \cup (IF handed THEN {RawDataPtr} ELSE {})

\* variant of TemperatureTFine: a null sample clears _t_fine
TemperatureTFineOnNull(p) ==
    IF p = NULL THEN 0 ELSE TFineOf(rawData.temperature_raw, cal)

\* what BME280_compensated_Temperature leaves in _t_fine
TemperatureTFine(p) ==
    IF p = NULL THEN t_fine ELSE TFineOf(rawData.temperature_raw, cal)

BME280_compensated_Temperature(p) ==
    /\ pc = "idle"
    /\ t_fine' = TemperatureTFine(p)
    /\ ret' = (IF p = NULL THEN -32768 ELSE TemperatureOf(t_fine'))
    /\ tsrc' = (IF p = NULL THEN tsrc
                ELSE [written |-> TRUE,
                      temperature_raw |-> rawData.temperature_raw,
                      calibration |-> cal,
                      current |-> TRUE])
    /\ call' = "compensated_Temperature"
    /\ rd' = p
    /\ trace' = << >>
    /\ xferFailed' = FALSE
    /\ NoPollLocals
    /\ UNCHANGED << cal, ctrl_meas, rawData, pc, handed >>

\* variant of PressureTFine: a null sample clears _t_fine
PressureTFineOnNull(p) == IF p = NULL THEN 0 ELSE t_fine

\* what BME280_compensated_Pressure leaves in _t_fine
PressureTFine(p) == t_fine

BME280_compensated_Pressure(p) ==
    /\ pc = "idle"
    /\ ret' = (IF p = NULL THEN 0
               ELSE PressureOf(rawData.pressure_raw, t_fine, cal))
    /\ t_fine' = PressureTFine(p)
    /\ call' = "compensated_Pressure"
    /\ rd' = p
    /\ trace' = << >>
    /\ xferFailed' = FALSE
    /\ NoPollLocals
    /\ UNCHANGED << cal, ctrl_meas, rawData, pc, handed, tsrc >>

\* variant of HumidityTFine: _t_fine is cleared once it has been used
HumidityTFineConsumed(p) == IF p = NULL THEN t_fine ELSE 0

\* what BME280_compensated_Humidity leaves in _t_fine
HumidityTFine(p) == t_fine

BME280_compensated_Humidity(p) ==
    /\ pc = "idle"
    /\ ret' = (IF p = NULL THEN 0
               ELSE HumidityOf(rawData.humidity_raw, t_fine, cal))
    /\ t_fine' = HumidityTFine(p)
    /\ call' = "compensated_Humidity"
    /\ rd' = p
    /\ trace' = << >>
    /\ xferFailed' = FALSE
    /\ NoPollLocals
    /\ UNCHANGED << cal, ctrl_meas, rawData, pc, handed, tsrc >>

Next ==
    \/ BME280_open
    \/ BME280_close
    \/ \E t \in Timeouts : BME280_readMeasurements(t)
    \/ PollBusy(MaxPolls)
    \/ PollReady
    \/ BME280_read
    \/ \E p \in Samples : BME280_compensated_Temperature(p)
    \/ \E p \in Samples : BME280_compensated_Pressure(p)
    \/ \E p \in Samples : BME280_compensated_Humidity(p)

Spec == Init /\ [][Next]_vars

(***************************************************************************)
(* The measurement operations alone, followed through long polls.          *)
(***************************************************************************)
NextPoll ==
    \/ \E t \in PollTimeouts : BME280_readMeasurements(t)
    \/ PollBusy(MaxLongPolls)
    \/ PollReady
    \/ BME280_read

SpecPoll == Init /\ [][NextPoll]_vars

(***************************************************************************)
(* Polls that have already run for a long time.  A poll with timeout 0 of  *)
(* a device that stays busy goes through the 15 intervals 2 .. 32768 again *)
(* and again; each round adds 65534 to total_delay, so after 65538 rounds  *)
(* total_delay is 65534 * 65538 = 2^32 - 4 and status_delay is back at 2.  *)
(* InitNearWrap is that state; its trace lists the events from there on.   *)
(***************************************************************************)
InitNearWrap ==
    /\ cal = [i \in 0..32 |-> 0]
    /\ ctrl_meas = 0
    /\ rawData = [humidity_raw |-> 0, temperature_raw |-> 0, pressure_raw |-> 0]
    /\ t_fine = 0
    /\ pc = "poll"
    /\ call = "readMeasurements"
    /\ ret = NULL
    /\ rd = NULL
    /\ timeout = 0
    /\ status_delay = BME280_STATUS_MINIMUM_WAIT
    /\ total_delay = U32(65535, 65532)
    /\ stat = BME280_STATUS_MEASURING
    /\ trace = << >>
    /\ xferFailed = FALSE
    /\ handed = FALSE
    /\ tsrc = NoSource

SpecWrap == (Init \/ InitNearWrap) /\ [][NextPoll]_vars

(***************************************************************************)
(* The measurement operations under scheduling: Task_sleep returns and the *)
(* poll loop goes on to its next iteration.  The device leaves the busy    *)
(* state within MaxLongPolls sleeps of a call (the guard of PollBusy).     *)
(***************************************************************************)
SpecLive ==
    Init /\ [][NextPoll]_vars /\ WF_vars(PollBusy(MaxLongPolls) \/ PollReady)

(***************************************************************************)
(* The compensation functions alone, over a range of devices and samples.  *)
(* InitComp is the state after this history: BME280_open on a device with  *)
(* the calibration registers imgT, BME280_read returning the frame ft,     *)
(* BME280_compensated_Temperature on that sample, BME280_open on a device  *)
(* with the registers img (or no second open), BME280_read returning f.    *)
(***************************************************************************)
\* calibration register images (33 bytes, as DeviceCalibration): all 0xFF;
\* and one with dig_T1 = 0, dig_T2 = 32760, dig_T3 = 8009, dig_P1 = 1,
\* dig_P2 = -32768, dig_P3 = 0
CalibrationHigh ==
    << 255, 255, 255, 255, 255, 255, 255, 255, 255, 255, 255, 255, 255,
       255, 255, 255, 255, 255, 255, 255, 255, 255, 255, 255, 255, 255,
       255, 255, 255, 255, 255, 255, 255 >>
CalibrationEdge ==
    <<   0,   0, 248, 127,  73,  31,   1,   0,   0, 128,   0,   0,  39,
        11, 140,   0, 249, 255, 140,  60, 248, 198, 112,  23,   0,  75,
       106,   1,   0,  19,  45,   3,  30 >>
CalibrationImages == { DeviceCalibration, CalibrationHigh, CalibrationEdge }

\* the calibration buffers open leaves, and the buffer before any open
CalBuffers ==
    { [i \in 0..32 |-> 0] }
        \cup { OpenCalibration([i \in 0..32 |-> 0], img, TRUE, TRUE) :
               img \in CalibrationImages }

\* data frames: those of DataFrames and one with the temperature count
\* 524320
CompFrames ==
    DataFrames \cup { << 128, 0, 0, 128, 2, 0, 128, 0 >> }

InitComp ==
    \E c \in CalBuffers, ct \in CalBuffers, f \in CompFrames, ft \in CompFrames :
        /\ cal = c
        /\ ctrl_meas = OpenCtrlMeas
        /\ rawData = DecodeFrame(f)
        /\ t_fine = TFineOf(DecodeFrame(ft).temperature_raw, ct)
        /\ pc = "idle"
        /\ call = "read"
        /\ ret = RawDataPtr
        /\ rd = NULL
        /\ timeout = ReadTimeout
        /\ status_delay = BME280_STATUS_MINIMUM_WAIT
        /\ total_delay = U32(0, 0)
        /\ stat = 0
        /\ trace = ReadTrigger(OpenCtrlMeas)
                       \o << EvRead(BME280_REG_STATUS, 1, 0, << >>),
                             EvRead(BME280_REG_PRESSURE, 8, 0, f) >>
        /\ xferFailed = FALSE
        /\ handed = TRUE
        /\ tsrc = [written |-> TRUE,
                   temperature_raw |-> DecodeFrame(ft).temperature_raw,
                   calibration |-> ct, current |-> FALSE]

NextComp ==
    \/ \E p \in Samples : BME280_compensated_Temperature(p)
    \/ \E p \in Samples : BME280_compensated_Pressure(p)
    \/ \E p \in Samples : BME280_compensated_Humidity(p)

SpecComp == InitComp /\ [][NextComp]_vars

(***************************************************************************)
(* Properties.                                                             *)
(***************************************************************************)
\* the state after a call of op has returned
Returned(op) == pc = "idle" /\ call = op

\* the event is a read transfer from register r
IsReadOf(e, r) == e.op = "read" /\ e.reg = r

\* the events of the poll loop in the trace of a measurement call
PollTrace == IF call = "read" THEN SubSeq(trace, 3, Len(trace)) ELSE trace

\* the k-th interval of the backoff cycle 2, 4, ..., 32768, 2, 4, ...
BackoffInterval(k) == Pow2(((k - 1) % 15) + 1)

\* the sum of the first n intervals
BackoffSum(n) == (n \div 15) * 65534 + (Pow2((n % 15) + 1) - 2)

\* the least number of intervals whose sum exceeds T
TimeoutSleeps(T) ==
    CHOOSE n \in 1..MaxLongPolls :
        /\ BackoffSum(n) > T
        /\ \A m \in 1..(n - 1) : BackoffSum(m) <= T

\* C1: a BME280_open whose chip-ID read returns a byte other than 0x60
\* returns false, issues no transfer after that read, and leaves the
\* calibration buffer and _bme280_ctrl_meas as they were.
C1_IdMismatch ==
    [][ (call' = "open" /\ trace'[2].data # << 96 >>)
            => /\ ret' = 0
               /\ Len(trace') = 2
               /\ cal' = cal
               /\ ctrl_meas' = ctrl_meas ]_vars

\* C1 witness: a rejected open after an earlier open has filled the
\* calibration buffer and set the control byte
C1_Witness ==
    /\ Returned("open")
    /\ trace[2].data = << 88 >>
    /\ ret = 0
    /\ cal[0] = DeviceCalibration[1]
    /\ ctrl_meas = OpenCtrlMeas

\* C2 as stated: after an open that returned true with every transfer
\* succeeding, each of the 33 calibration bytes is a byte one of the read
\* transfers of that open stored.
C2_AllBytesRead ==
    (Returned("open") /\ ret = 1 /\ ~xferFailed)
        => \A i \in 0..32 :
              \E k \in 1..Len(trace) :
                  /\ trace[k].op = "read"
                  /\ trace[k].reg \in {BME280_REG_CALIB00, BME280_REG_CALIB26}
                  /\ i >= trace[k].off
                  /\ i < trace[k].off + Len(trace[k].data)
                  /\ cal[i] = trace[k].data[i - trace[k].off + 1]

\* C3 as stated: an open during which a transfer failed returns false.
C3_FailurePropagates ==
    (Returned("open") /\ xferFailed) => ret = 0

C6_Timeout ==
    [][ (pc = "poll" /\ call = "readMeasurements" /\ ret' # RawDataPtr)
            => /\ rawData' = rawData
               /\ \A i \in 1..Len(trace') :
                      ~IsReadOf(trace'[i], BME280_REG_PRESSURE)
               /\ (pc' = "poll" /\ timeout # 0)
                      => SleepCount(trace') < TimeoutSleeps(timeout)
               /\ pc' = "idle"
                      => /\ ret' = NULL
                         /\ timeout # 0
                         /\ GtU32(total_delay', timeout)
                         /\ SleepCount(trace') = TimeoutSleeps(timeout) ]_vars

\* C6 witness: the longest timeout has expired, on the 16th sleep
C6_Witness ==
    /\ Returned("readMeasurements")
    /\ ret = NULL
    /\ timeout = 65535
    /\ SleepCount(trace) = 16
    /\ total_delay = U32(1, 0)

\* C7: BME280_readMeasurements(0) and BME280_read return the sample, never
\* NULL, whatever total_delay has grown or wrapped to.
C7_NoTimeoutAtZero ==
    (pc = "idle" /\ call \in {"readMeasurements", "read"} /\ timeout = 0)
        => ret = RawDataPtr

\* C7 witness: a poll with timeout 0 has returned the sample after
\* total_delay wrapped from 2^32 - 2 to 2
C7_Witness ==
    /\ Returned("readMeasurements")
    /\ timeout = 0
    /\ ret = RawDataPtr
    /\ total_delay = U32(0, 2)
    /\ status_delay = 8

\* C8: BME280_read writes ctrl_meas with the forced-mode bits OR'd into
\* the retained byte, sleeps the minimum interval, and only then polls:
\* that write is its only write, every read comes after the sleep, the
\* first of them is a status read, and the poll runs with timeout 0.
C8_ReadOrder ==
    call = "read"
        => /\ Len(trace) >= 2
           /\ trace[1] = EvWrite(BME280_REG_CTRL_MEAS,
                                 BitOr(BME280_CTRL_MEAS_MODE_FORCED, ctrl_meas))
           /\ trace[2] = EvSleep(BME280_STATUS_MINIMUM_WAIT)
           /\ \A i \in 2..Len(trace) : trace[i].op # "write"
           /\ Len(trace) >= 3 => IsReadOf(trace[3], BME280_REG_STATUS)
           /\ timeout = 0

\* C8 witness: a read after open has returned a sample
C8_Witness ==
    /\ Returned("read")
    /\ ctrl_meas = 108
    /\ trace[1].arg = 109
    /\ ret = RawDataPtr
    /\ SleepCount(trace) >= 2

\* C9 as stated: once a sample has been handed out, the counts seen
\* through it never change.
C9_Immutable ==
    [][ handed => rawData' = rawData ]_vars

\* C9: the counts seen through a sample that has been handed out change
\* only in the step of BME280_readMeasurements (called directly or by
\* BME280_read) that reads the 8 data bytes, and become the counts decoded
\* from those bytes.
C9_ChangedOnlyByFetch ==
    [][ (handed /\ rawData' # rawData)
            => /\ pc = "poll" /\ pc' = "idle"
               /\ ret' = RawDataPtr
               /\ Len(trace') = Len(trace) + 2
               /\ IsReadOf(trace'[Len(trace')], BME280_REG_PRESSURE)
               /\ trace'[Len(trace')].arg = 8
               /\ rawData' = DecodeFrame(trace'[Len(trace')].data) ]_vars

\* C9 witness: a later BME280_read has replaced the counts of the sample
\* the application computed a temperature from
C9_Witness ==
    /\ handed
    /\ Returned("read")
    /\ ret = RawDataPtr
    /\ tsrc.written
    /\ tsrc.temperature_raw # rawData.temperature_raw

\* C10 as stated: whenever pressure or humidity compensation runs on a
\* sample, _t_fine was written by a temperature compensation of that same
\* sample.
C10_TFineFresh ==
    (pc = "idle"
     /\ call \in {"compensated_Pressure", "compensated_Humidity"}
     /\ rd # NULL)
        => (tsrc.written /\ tsrc.current)

\* C10: _t_fine is 0 until the first temperature compensation of a
\* non-null sample and from then on the value the most recent such call
\* computed from its sample and the calibration of that moment; pressure
\* and humidity compensation compute from that value, whichever sample
\* they are given.
C10_TFineLastWritten ==
    /\ t_fine = (IF tsrc.written
                     THEN TFineOf(tsrc.temperature_raw, tsrc.calibration)
                     ELSE 0)
    /\ (Returned("compensated_Pressure") /\ rd # NULL)
           => ret = PressureOf(rawData.pressure_raw, t_fine, cal)
    /\ (Returned("compensated_Humidity") /\ rd # NULL)
           => ret = HumidityOf(rawData.humidity_raw, t_fine, cal)

\* C10 witness: pressure compensation has run on a sample fetched after
\* the temperature compensation that wrote _t_fine
C10_Witness ==
    /\ Returned("compensated_Pressure")
    /\ rd = RawDataPtr
    /\ tsrc.written
    /\ ~tsrc.current
    /\ tsrc.temperature_raw # rawData.temperature_raw

\* a 16-bit and an 8-bit pattern read as two's complement
TwosComplement16(x) == IF x >= 32768 THEN x - 65536 ELSE x
TwosComplement8(x) == IF x >= 128 THEN x - 256 ELSE x

\* C11: BME280_compensated_Pressure on a non-null sample returns 0 when
\* the divisor var1 is 0, and otherwise the result computed from the
\* quotient by that non-zero var1: no division by zero takes place.
C11_NoDivisionByZero ==
    (Returned("compensated_Pressure") /\ rd # NULL)
        => Only({ IF IsZero64(var1)
                      THEN ret = 0
                      ELSE ret = PressureQuotient(rawData.pressure_raw, var1,
                                                  PressureVar2(t_fine, cal), cal) :
                  var1 \in { PressureVar1(t_fine, cal) } })

\* C11 witness: the divisor is 0 although dig_P1 is not, and 0 was returned
C11_Witness ==
    /\ Returned("compensated_Pressure")
    /\ rd # NULL
    /\ BME280_dig_P1(cal) # 0
    /\ IsZero64(PressureVar1(t_fine, cal))
    /\ ret = 0

\* C12 as stated: BME280_compensated_Humidity on a non-null sample returns
\* a value in 0 .. 409600, 409600 being the clamp limit 419430400 shifted
\* right by 12.
C12_Range409600 ==
    (Returned("compensated_Humidity") /\ rd # NULL)
        => /\ ret \in 0..409600
           /\ SarI32(419430400, 12) = 409600

\* C12: BME280_compensated_Humidity on a non-null sample returns a value in
\* 0 .. 102400 (102400 = 419430400 >> 12): 102400 when the intermediate
\* exceeds the clamp limit, 0 when it is negative.
C12_Range102400 ==
    (Returned("compensated_Humidity") /\ rd # NULL)
        => Only({ /\ ret \in 0..102400
                  /\ v > 419430400 => ret = 102400
                  /\ v < 0 => ret = 0 :
                  v \in { HumidityUnclamped(rawData.humidity_raw, t_fine, cal) } })

\* C12 witness: the intermediate exceeded the clamp limit
C12_Witness ==
    /\ Returned("compensated_Humidity")
    /\ rd # NULL
    /\ HumidityUnclamped(rawData.humidity_raw, t_fine, cal) > 419430400
    /\ ret = 102400

\* C16: whatever the driver has done, each coefficient is this function of
\* the calibration buffer: the 16-bit ones little-endian (two's complement
\* for the signed ones), dig_H4 and dig_H5 nibble-packed, dig_H1, dig_H3
\* and dig_H6 single bytes (dig_H6 signed).
C16_CalibrationDecoding ==
    /\ BME280_dig_T1(cal) = cal[0] + 256 * cal[1]
    /\ BME280_dig_T2(cal) = TwosComplement16(cal[2] + 256 * cal[3])
    /\ BME280_dig_T3(cal) = TwosComplement16(cal[4] + 256 * cal[5])
    /\ BME280_dig_P1(cal) = cal[6] + 256 * cal[7]
    /\ BME280_dig_P2(cal) = TwosComplement16(cal[8] + 256 * cal[9])
    /\ BME280_dig_P3(cal) = TwosComplement16(cal[10] + 256 * cal[11])
    /\ BME280_dig_P4(cal) = TwosComplement16(cal[12] + 256 * cal[13])
    /\ BME280_dig_P5(cal) = TwosComplement16(cal[14] + 256 * cal[15])
    /\ BME280_dig_P6(cal) = TwosComplement16(cal[16] + 256 * cal[17])
    /\ BME280_dig_P7(cal) = TwosComplement16(cal[18] + 256 * cal[19])
    /\ BME280_dig_P8(cal) = TwosComplement16(cal[20] + 256 * cal[21])
    /\ BME280_dig_P9(cal) = TwosComplement16(cal[22] + 256 * cal[23])
    /\ BME280_dig_H1(cal) = cal[25]
    /\ BME280_dig_H2(cal) = TwosComplement16(cal[26] + 256 * cal[27])
    /\ BME280_dig_H3(cal) = cal[28]
    /\ BME280_dig_H4(cal) = 16 * cal[29] + (cal[30] % 16)
    /\ BME280_dig_H5(cal) = 16 * cal[31] + (cal[30] \div 16)
    /\ BME280_dig_H6(cal) = TwosComplement8(cal[32])

\* C16 witness: a buffer with negative signed coefficients, decoded for a
\* humidity compensation after other calls
C16_Witness ==
    /\ Returned("compensated_Humidity")
    /\ rd # NULL
    /\ cal[9] = 128
    /\ BME280_dig_P2(cal) = -32768
    /\ BME280_dig_H4(cal) = 16 * 19 + 13

\* C13: a compensation function called with a null sample returns -32768
\* (temperature) or 0 (pressure, humidity), changes none of _t_fine, the
\* calibration buffer, _bme280_ctrl_meas and _rawData, and issues no
\* transfer.
C13_NullSample ==
    [][ (call' \in {"compensated_Temperature", "compensated_Pressure",
                    "compensated_Humidity"} /\ rd' = NULL)
            => /\ ret' = (IF call' = "compensated_Temperature" THEN -32768 ELSE 0)
               /\ t_fine' = t_fine
               /\ cal' = cal
               /\ ctrl_meas' = ctrl_meas
               /\ rawData' = rawData
               /\ trace' = << >> ]_vars

\* C13 witness: temperature compensation of a null sample has returned
\* the sentinel, with a _t_fine written earlier
C13_Witness ==
    /\ Returned("compensated_Temperature")
    /\ rd = NULL
    /\ ret = -32768
    /\ tsrc.written
    /\ t_fine # 0

\* C14: from any state BME280_close issues exactly one transfer, the write
\* of the reset command to the reset register, sets _bme280_ctrl_meas to
\* 0, returns true and leaves the calibration buffer, _t_fine and _rawData
\* unchanged.
C14_Close ==
    [][ call' = "close"
            => /\ trace' = << EvWrite(BME280_REG_RESET, BME280_RESET_ASSERT) >>
               /\ ctrl_meas' = 0
               /\ ret' = 1
               /\ cal' = cal
               /\ t_fine' = t_fine
               /\ rawData' = rawData ]_vars

\* C14 witness: a close of an opened driver that holds a sample and a
\* _t_fine
C14_Witness ==
    /\ Returned("close")
    /\ ret = 1
    /\ ctrl_meas = 0
    /\ cal[0] = DeviceCalibration[1]
    /\ handed
    /\ t_fine # 0

\* C15: a measurement call that found both busy bits clear has issued
\* exactly one data read, of 8 bytes from the pressure register, as its
\* last transfer, and _rawData holds those bytes decoded as
\* (b0<<12)|(b1<<4)|(b2>>4), (b3<<12)|(b4<<4)|(b5>>4), (b6<<8)|b7, which
\* is what BME280_readWord20 and BME280_readWord return for the same
\* bytes; the fields are below 2^20, 2^20 and 2^16.
C15_Decode ==
    (pc = "idle" /\ call \in {"readMeasurements", "read"} /\ ret = RawDataPtr)
        => LET n == Len(trace)
               b == trace[n].data
           IN  /\ stat % 2 = 0 /\ (stat \div 8) % 2 = 0
               /\ IsReadOf(trace[n - 1], BME280_REG_STATUS)
               /\ IsReadOf(trace[n], BME280_REG_PRESSURE)
               /\ trace[n].arg = 8 /\ Len(b) = 8
               /\ Cardinality({ i \in 1..n :
                                  IsReadOf(trace[i], BME280_REG_PRESSURE) }) = 1
               /\ rawData.pressure_raw = b[1] * 4096 + b[2] * 16 + (b[3] \div 16)
               /\ rawData.temperature_raw = b[4] * 4096 + b[5] * 16 + (b[6] \div 16)
               /\ rawData.humidity_raw = b[7] * 256 + b[8]
               /\ rawData.pressure_raw = ReadWord20Value(<< b[1], b[2], b[3] >>)
               /\ rawData.temperature_raw = ReadWord20Value(<< b[4], b[5], b[6] >>)
               /\ rawData.humidity_raw = ReadWordValue(<< b[7], b[8] >>)
               /\ rawData.pressure_raw \in 0..1048575
               /\ rawData.temperature_raw \in 0..1048575
               /\ rawData.humidity_raw \in 0..65535

\* C15 witness: a poll has returned the sample decoded from the frame
\* 65 5A C0 7E ED 00 5C 15
C15_Witness ==
    /\ Returned("readMeasurements")
    /\ ret = RawDataPtr
    /\ trace[Len(trace)].data[7] = 92
    /\ rawData.pressure_raw = 415148
    /\ rawData.temperature_raw = 519888
    /\ rawData.humidity_raw = 23573

C18_ControlByte ==
    [][ /\ ctrl_meas' % 4 = 0
        /\ ctrl_meas' \in {0, BitOr(BME280_CTRL_MEAS_OSRS_T__4,
                                    BME280_CTRL_MEAS_OSRS_P__4)}
        /\ ctrl_meas' # ctrl_meas
              => \/ call' = "close"
                 \/ call' = "open" /\ ret' = 1
        /\ \A i \in 1..Len(trace') :
              (trace'[i].op = "write" /\ trace'[i].reg = BME280_REG_CTRL_MEAS)
                  => /\ call' \in {"open", "read"}
                     /\ trace'[i].arg % 4 # 3
                     /\ trace'[i].arg % 4 =
                            (IF call' = "open" THEN BME280_CTRL_MEAS_MODE_SLEEP
                             ELSE BME280_CTRL_MEAS_MODE_FORCED)
        /\ (pc = "idle" /\ pc' = "idle" /\ call' = "open" /\ ret' = 1)
              => /\ trace'[8].op = "write"
                 /\ trace'[8].reg = BME280_REG_CTRL_MEAS
                 /\ trace'[8].arg - (trace'[8].arg % 4) = ctrl_meas'
        /\ (pc = "idle" /\ pc' = "poll" /\ call' = "read")
              => /\ trace'[1].op = "write"
                 /\ trace'[1].reg = BME280_REG_CTRL_MEAS
                 /\ trace'[1].arg - (trace'[1].arg % 4) = ctrl_meas
                 /\ ctrl_meas' = ctrl_meas ]_vars

\* C18 witness: a BME280_read after a successful open has triggered with
\* the oversampling bits of that open and the mode 'forced', and has
\* returned the sample
C18_Witness ==
    /\ Returned("read")
    /\ ret = RawDataPtr
    /\ cal[0] = DeviceCalibration[1]
    /\ ctrl_meas = 108
    /\ trace[1] = EvWrite(BME280_REG_CTRL_MEAS, 109)

\* the value _t_fine holds according to the record of its last assignment
TFineOfSource(src) ==
    IF src.written THEN TFineOf(src.temperature_raw, src.calibration) ELSE 0

\* C19: only BME280_compensated_Temperature called with a non-null sample
\* changes _t_fine; every other operation leaves it as it is.  A pressure
\* or humidity compensation repeated with the same sample, with no call in
\* between, returns the same value, and the value either returns is
\* computed from the temperature count of the sample last given to
\* temperature compensation, not from that of its own argument.
C19_TFineWriter ==
    [][ /\ t_fine' # t_fine
              => (call' = "compensated_Temperature" /\ rd' # NULL)
        /\ (call' \notin {"compensated_Temperature"} \/ rd' = NULL)
              => t_fine' = t_fine
        /\ (/\ pc = "idle" /\ pc' = "idle"
            /\ call \in {"compensated_Pressure", "compensated_Humidity"}
            /\ call' = call
            /\ rd # NULL /\ rd' = rd)
              => ret' = ret
        /\ (pc' = "idle" /\ call' = "compensated_Pressure" /\ rd' # NULL)
              => ret' = PressureOf(rawData'.pressure_raw,
                                   TFineOfSource(tsrc'), cal')
        /\ (pc' = "idle" /\ call' = "compensated_Humidity" /\ rd' # NULL)
              => ret' = HumidityOf(rawData'.humidity_raw,
                                   TFineOfSource(tsrc'), cal') ]_vars

\* C19 witness: humidity compensation has run on a sample other than the
\* one last given to temperature compensation, and its result is not the
\* one the temperature count of its own sample would give
C19_Witness ==
    /\ Returned("compensated_Humidity")
    /\ rd = RawDataPtr
    /\ tsrc.written
    /\ ~tsrc.current
    /\ tsrc.temperature_raw # rawData.temperature_raw
    /\ ret # HumidityOf(rawData.humidity_raw,
                        TFineOf(rawData.temperature_raw, cal), cal)

\* C20: a poll without timeout (BME280_read, BME280_readMeasurements(0)) of
\* a device that clears both status bits after finitely many polls
\* eventually reads the data and returns the sample, through the growing
\* and restarting backoff; the loop goes on only after a status byte
\* with a busy bit set, and it leaves at the first status byte with both
\* bits clear, by the data read and with no sleep after that status read.
C20_PollCompletes ==
    /\ (pc = "poll" /\ timeout = 0) ~> (pc = "idle" /\ ret = RawDataPtr)
    /\ [][ /\ (pc = "poll" /\ pc' = "poll")
                 => (stat' % 2 = 1 \/ (stat' \div 8) % 2 = 1)
           /\ (pc = "poll" /\ pc' = "idle" /\ timeout = 0)
                 => /\ ret' = RawDataPtr
                    /\ stat' % 2 = 0 /\ (stat' \div 8) % 2 = 0
                    /\ Len(trace') = Len(trace) + 2
                    /\ SubSeq(trace', 1, Len(trace)) = trace
                    /\ IsReadOf(trace'[Len(trace) + 1], BME280_REG_STATUS)
                    /\ IsReadOf(trace'[Len(trace) + 2], BME280_REG_PRESSURE)
                    /\ SleepCount(trace') = SleepCount(trace) ]_vars

\* C20 witness: BME280_read has returned the sample after the poll slept
\* 2, 4, ..., 32768 and then 2 again
C20_Witness ==
    /\ Returned("read")
    /\ ret = RawDataPtr
    /\ timeout = 0
    /\ Len(trace) = 36
    /\ trace[32] = EvSleep(32768)
    /\ trace[34] = EvSleep(2)
    /\ IsReadOf(trace[36], BME280_REG_PRESSURE)

====
